---- MODULE Spec2Model ----
(***************************************************************************)
(* Model of the uint256 modular-multiplication precompile                  *)
(* (core/src/syscall/precompiles/uint256/air.rs) and of the generic        *)
(* affine-point library (crates/zkvm/lib/src/utils.rs).                    *)
(*                                                                         *)
(* Widths.  TLC's integers are 32 bits wide, so a u8 is modelled as a      *)
(* ByteBits-bit value and a u32 as a word of four such bytes; a U256 is,   *)
(* as in the source, NUM_PHYSICAL_LIMBS bytes = NUM_PHYSICAL_WORDS words.  *)
(* A BigUint is a normalised little-endian sequence of word-sized digits,  *)
(* so arithmetic on it never leaves TLC's integer range.  Memory addresses *)
(* stay far below 2^32: address arithmetic never wraps in the model.       *)
(***************************************************************************)
EXTENDS Integers, Sequences, FiniteSets, TLC

VARIABLES
    mem,        \* guest memory: word index -> word
    events,     \* the shard's uint256_mul_events log
    shard,      \* rt.current_shard()
    clk,        \* rt.clk
    accesses,   \* number of memory accesses made with a record (mr / mw)
    panicked,   \* guest execution has been aborted by a panic
    call,       \* the last call of execute: its arguments and outcome
    trace,      \* the rows generate_trace produced, <<>> before it ran
    lib         \* the last call into the affine-point library and its result

vars == <<mem, events, shard, clk, accesses, panicked, call, trace, lib>>

-----------------------------------------------------------------------------
(* Widths and sizes *)

ByteBits == 2
ByteBase == 2 ^ ByteBits
WordBits == 4 * ByteBits
WordBase == 2 ^ WordBits
WordMax == WordBase - 1

NUM_PHYSICAL_LIMBS == 32
NUM_PHYSICAL_WORDS == NUM_PHYSICAL_LIMBS \div 4

\* Number of memory words the model holds (addresses 0 .. 4*MemWords - 1).
MemWords == 24
\* Number of calls of execute in one run.
MaxCalls == 2

Max(a, b) == IF a >= b THEN a ELSE b

-----------------------------------------------------------------------------
(* Word / byte codec *)

\* word.to_le_bytes(): the four bytes of a word, least significant first.
to_le_bytes(word) == [k \in 1..4 |-> (word \div (ByteBase ^ (k - 1))) % ByteBase]

\* u32::from_le_bytes(chunk)
from_le_bytes(chunk) ==
    chunk[1] + ByteBase * chunk[2] + ByteBase ^ 2 * chunk[3] + ByteBase ^ 3 * chunk[4]

words_to_bytes_le(words) ==
    [j \in 1..(4 * Len(words)) |-> to_le_bytes(words[((j - 1) \div 4) + 1])[((j - 1) % 4) + 1]]

\* chunks_exact(4): a trailing chunk of fewer than 4 bytes is dropped.
bytes_to_words_le(bytes) ==
    [i \in 1..(Len(bytes) \div 4) |-> from_le_bytes(SubSeq(bytes, 4 * i - 3, 4 * i))]

-----------------------------------------------------------------------------
(* BigUint: as in num-bigint, a normalised little-endian vector of digits, *)
(* here one word (four bytes) per digit.                                   *)

RECURSIVE Normalize(_)
\* Strip the most significant zero digits.
Normalize(d) ==
    IF Len(d) = 0 \/ d[Len(d)] # 0 THEN d ELSE Normalize(SubSeq(d, 1, Len(d) - 1))

\* BigUint::from_bytes_le: pack the bytes four to a digit (the last chunk
\* zero-extended) and normalise.
BigFromBytesLe(bytes) ==
    LET n == (Len(bytes) + 3) \div 4
        B(j) == IF j <= Len(bytes) THEN bytes[j] ELSE 0
    IN Normalize([i \in 1..n |->
            from_le_bytes(<<B(4 * i - 3), B(4 * i - 2), B(4 * i - 1), B(4 * i)>>)])

\* BigUint::to_bytes_le: the minimal byte string, a single 0 byte for zero.
BigToBytesLe(a) ==
    IF a = <<>> THEN <<0>> ELSE Normalize(words_to_bytes_le(a))

Digit(a, i) == IF i <= Len(a) THEN a[i] ELSE 0

RECURSIVE BigLessFrom(_, _, _)
BigLessFrom(a, b, i) ==
    IF i = 0 THEN FALSE
    ELSE IF a[i] # b[i] THEN a[i] < b[i]
    ELSE BigLessFrom(a, b, i - 1)

\* a < b, for normalised a and b
BigLess(a, b) ==
    \/ Len(a) < Len(b)
    \/ Len(a) = Len(b) /\ BigLessFrom(a, b, Len(a))

RECURSIVE BigAddFrom(_, _, _, _, _)
BigAddFrom(a, b, i, carry, acc) ==
    IF i > Max(Len(a), Len(b))
    THEN IF carry = 0 THEN acc ELSE Append(acc, carry)
    ELSE LET s == Digit(a, i) + Digit(b, i) + carry
             acc2 == Append(acc, s % WordBase)
         IN IF Len(acc2) = i THEN BigAddFrom(a, b, i + 1, s \div WordBase, acc2) ELSE acc2

\* a + b
BigAdd(a, b) == BigAddFrom(a, b, 1, 0, <<>>)

RECURSIVE BigSubFrom(_, _, _, _, _)
BigSubFrom(a, b, i, borrow, acc) ==
    IF i > Len(a) THEN Normalize(acc)
    ELSE LET s == Digit(a, i) - Digit(b, i) - borrow
             acc2 == Append(acc, (s + WordBase) % WordBase)
         IN IF Len(acc2) = i THEN BigSubFrom(a, b, i + 1, IF s < 0 THEN 1 ELSE 0, acc2)
            ELSE acc2

\* a - b, for a >= b
BigSub(a, b) == BigSubFrom(a, b, 1, 0, <<>>)

RECURSIVE BigMulRow(_, _, _, _, _)
\* acc + a * d * WordBase^(k-1), digit by digit from position k: acc has
\* Len(a) + Len(b) digits throughout.
BigMulRow(a, d, i, carry, acc) ==
    IF i > Len(acc) THEN acc
    ELSE LET j == i - d[2] + 1
             s == acc[i] + (IF j >= 1 /\ j <= Len(a) THEN a[j] * d[1] ELSE 0) + carry
             acc2 == [acc EXCEPT ![i] = s % WordBase]
         IN IF Len(acc2) = Len(acc) THEN BigMulRow(a, d, i + 1, s \div WordBase, acc2)
            ELSE acc2

RECURSIVE BigMulFrom(_, _, _, _)
BigMulFrom(a, b, k, acc) ==
    IF k > Len(b) THEN Normalize(acc)
    ELSE LET acc2 == BigMulRow(a, <<b[k], k>>, k, 0, acc)
         IN IF Len(acc2) = Len(acc) THEN BigMulFrom(a, b, k + 1, acc2) ELSE acc2

\* a * b, the schoolbook product
BigMul(a, b) == BigMulFrom(a, b, 1, [i \in 1..(Len(a) + Len(b)) |-> 0])

RECURSIVE BigShl1From(_, _, _, _)
BigShl1From(a, i, carry, acc) ==
    IF i > Len(a)
    THEN IF carry = 0 THEN acc ELSE Append(acc, carry)
    ELSE LET s == 2 * a[i] + carry
             acc2 == Append(acc, s % WordBase)
         IN IF Len(acc2) = i THEN BigShl1From(a, i + 1, s \div WordBase, acc2) ELSE acc2

\* 2 * a
BigShl1(a) == BigShl1From(a, 1, 0, <<>>)

RECURSIVE BigShifts(_, _)
\* <<m, 2m, 4m, ...>>: m shifted left by 0 .. WordBits-1 bits.
BigShifts(m, acc) ==
    IF Len(acc) = WordBits THEN acc
    ELSE LET acc2 == Append(acc, IF acc = <<>> THEN m ELSE BigShl1(acc[Len(acc)]))
         IN IF Len(acc2[Len(acc2)]) > 0 THEN BigShifts(m, acc2) ELSE acc2

RECURSIVE BigRemDigit(_, _, _)
\* r mod m for r < m * WordBase: subtract m * 2^(j-1) for j = WordBits .. 1
\* wherever it fits.
BigRemDigit(r, ms, j) ==
    IF j = 0 THEN r
    ELSE LET r2 == IF BigLess(r, ms[j]) THEN r ELSE BigSub(r, ms[j])
         IN IF Len(r2) >= 0 THEN BigRemDigit(r2, ms, j - 1) ELSE r2

RECURSIVE BigRemFrom(_, _, _, _)
\* Long division from the most significant digit, keeping the remainder.
BigRemFrom(a, ms, i, r) ==
    IF i = 0 THEN r
    ELSE LET r2 == BigRemDigit(Normalize(<<a[i]>> \o r), ms, WordBits)
         IN IF Len(r2) >= 0 THEN BigRemFrom(a, ms, i - 1, r2) ELSE r2

\* a % m, for m # 0
BigRem(a, m) ==
    LET ms == BigShifts(m, <<>>)
    IN IF Len(ms) = WordBits THEN BigRemFrom(a, ms, Len(a), <<>>) ELSE <<>>

-----------------------------------------------------------------------------
(* Memory access interface of the syscall context *)

WordIndex(addr) == addr \div 4

\* rt.slice_unsafe(addr, len): the words, no access record.
slice_unsafe(m, addr, len) == [i \in 1..len |-> m[WordIndex(addr) + i - 1]]

\* rt.mr_slice(addr, len): one read record per word, and the words.
mr_slice(m, addr, len, sh, ck) ==
    [records |-> [i \in 1..len |->
                    [value |-> m[WordIndex(addr) + i - 1], shard |-> sh, timestamp |-> ck]],
     values  |-> [i \in 1..len |-> m[WordIndex(addr) + i - 1]]]

\* rt.mw_slice(addr, values): writes the words, one write record per word.
mw_slice(m, addr, values, sh, ck) ==
    [records |-> [i \in 1..Len(values) |->
                    [value |-> values[i], prev_value |-> m[WordIndex(addr) + i - 1],
                     shard |-> sh, timestamp |-> ck]],
     mem     |-> [w \in DOMAIN m |->
                    IF w >= WordIndex(addr) /\ w < WordIndex(addr) + Len(values)
                    THEN values[w - WordIndex(addr) + 1] ELSE m[w]]]

-----------------------------------------------------------------------------
(* Uint256MulChip::execute *)

\* A faulty variant of PointersOk: the aliasing assertion is missing.
PointersOk_NoAliasCheck(x_ptr, y_ptr) == x_ptr % 4 = 0 /\ y_ptr % 4 = 0

\* The three checks execute makes before it touches memory.
PointersOk(x_ptr, y_ptr) ==
    /\ x_ptr % 4 = 0
    /\ y_ptr % 4 = 0
    /\ x_ptr # y_ptr

\* result_bytes.resize(32, 0)
Resize(bytes, n) == [i \in 1..n |-> IF i <= Len(bytes) THEN bytes[i] ELSE 0]

\* A faulty variant of MulModWords: the product is not reduced modulo the modulus.
MulModWords_NoReduce(x, y, modulus) ==
    bytes_to_words_le(Resize(BigToBytesLe(
        BigMul(BigFromBytesLe(words_to_bytes_le(x)), BigFromBytesLe(words_to_bytes_le(y)))),
        NUM_PHYSICAL_LIMBS))

\* The words execute writes back: (x * y) % modulus, resized to 32 bytes and
\* repacked into words.  The modulus is not zero here.
MulModWords(x, y, modulus) ==
    LET uint256_x == BigFromBytesLe(words_to_bytes_le(x))
        uint256_y == BigFromBytesLe(words_to_bytes_le(y))
        uint256_modulus == BigFromBytesLe(words_to_bytes_le(modulus))
        result == BigRem(BigMul(uint256_x, uint256_y), uint256_modulus)
        result_bytes == Resize(BigToBytesLe(result), NUM_PHYSICAL_LIMBS)
    IN bytes_to_words_le(result_bytes)

\* A faulty variant of NewEvent: x is read back after the result was written.
NewEvent_PostImage(sh, ck, x_ptr, x, y_ptr, yr, mr, w) ==
    [shard |-> sh, clk |-> ck, x_ptr |-> x_ptr,
     x |-> slice_unsafe(w.mem, x_ptr, NUM_PHYSICAL_WORDS),
     y_ptr |-> y_ptr, y |-> yr.values, modulus |-> mr.values,
     x_memory_records |-> w.records,
     y_memory_records |-> yr.records,
     modulus_memory_records |-> mr.records]

\* The Uint256MulEvent execute pushes.
NewEvent(sh, ck, x_ptr, x, y_ptr, yr, mr, w) ==
    [shard |-> sh, clk |-> ck, x_ptr |-> x_ptr, x |-> x,
     y_ptr |-> y_ptr, y |-> yr.values, modulus |-> mr.values,
     x_memory_records |-> w.records,
     y_memory_records |-> yr.records,
     modulus_memory_records |-> mr.records]

IsZeroWords(ws) == \A i \in 1..Len(ws) : ws[i] = 0

\* The outcome of execute(rt, arg1, arg2) on the context (m, ev, acc, sh, ck):
\* whether it panicked, and the memory, event log and access count it leaves.
execute(m, ev, acc, sh, ck, arg1, arg2) ==
    LET x_ptr == arg1
        y_ptr == arg2
    IN IF ~PointersOk(x_ptr, y_ptr)
       THEN [panic |-> TRUE, mem |-> m, events |-> ev, accesses |-> acc]
       ELSE
       LET x  == slice_unsafe(m, x_ptr, NUM_PHYSICAL_WORDS)
           yr == mr_slice(m, y_ptr, NUM_PHYSICAL_WORDS, sh, ck)
           mr == mr_slice(m, y_ptr + NUM_PHYSICAL_WORDS * 4, NUM_PHYSICAL_WORDS, sh, ck)
       IN IF IsZeroWords(mr.values)
          \* BigUint's % panics on a zero divisor, after the reads.
          THEN [panic |-> TRUE, mem |-> m, events |-> ev,
                accesses |-> acc + 2 * NUM_PHYSICAL_WORDS]
          ELSE
          LET result == MulModWords(x, yr.values, mr.values)
              Written(w) ==
                  [panic |-> FALSE,
                   mem |-> w.mem,
                   events |-> Append(ev, NewEvent(sh, ck, x_ptr, x, y_ptr, yr, mr, w)),
                   accesses |-> acc + 3 * NUM_PHYSICAL_WORDS]
          IN CHOOSE out \in {Written(w) : w \in {mw_slice(m, x_ptr, result, sh, ck)}} : TRUE

-----------------------------------------------------------------------------
(* Uint256MulChip::generate_trace *)

\* Fewest rows of a trace.
MinTraceRows == 16

RECURSIVE NextPowerOfTwo(_, _)
NextPowerOfTwo(n, p) == IF p >= n THEN p ELSE NextPowerOfTwo(n, 2 * p)

\* pad_rows(rows, row_fn): dummy rows are appended until the row count is the
\* size the proof system requires, a power of two and at least MinTraceRows.
pad_rows(rows, dummy_row) ==
    LET padded_nb_rows == Max(NextPowerOfTwo(Len(rows), 1), MinTraceRows)
    IN [i \in 1..padded_nb_rows |-> IF i <= Len(rows) THEN rows[i] ELSE dummy_row]

ZeroWriteCols == [value |-> 0, prev_value |-> 0, shard |-> 0, timestamp |-> 0]
ZeroReadCols == [value |-> 0, shard |-> 0, timestamp |-> 0]

\* [F::zero(); NUM_COLS], seen through Uint256MulCols.
ZeroRow ==
    [is_real |-> 0, shard |-> 0, clk |-> 0, x_ptr |-> 0, y_ptr |-> 0,
     x_memory |-> [i \in 1..NUM_PHYSICAL_WORDS |-> ZeroWriteCols],
     y_memory |-> [i \in 1..NUM_PHYSICAL_WORDS |-> ZeroReadCols],
     modulus_memory |-> [i \in 1..NUM_PHYSICAL_WORDS |-> ZeroReadCols]]

\* A faulty variant of EventRow: is_real is left at zero.
EventRow_NotReal(event) ==
    [ZeroRow EXCEPT !.shard = event.shard, !.clk = event.clk,
                    !.x_ptr = event.x_ptr, !.y_ptr = event.y_ptr,
                    !.x_memory = event.x_memory_records,
                    !.y_memory = event.y_memory_records,
                    !.modulus_memory = event.modulus_memory_records]

\* The row of one event.  The output columns belong to the field-operation
\* component and are not part of this model.
EventRow(event) ==
    [ZeroRow EXCEPT !.is_real = 1,
                    !.shard = event.shard, !.clk = event.clk,
                    !.x_ptr = event.x_ptr, !.y_ptr = event.y_ptr,
                    !.x_memory = event.x_memory_records,
                    !.y_memory = event.y_memory_records,
                    !.modulus_memory = event.modulus_memory_records]

\* The row the padding closure builds: a zero row with populate(0, 0, Mul).
PaddingRow == ZeroRow

\* chunks(1): the events one to a chunk, in order.
Chunks1(evs) == [i \in 1..Len(evs) |-> <<evs[i]>>]

RECURSIVE Flatten(_)
\* rows.extend(row) for each chunk's rows in turn.
Flatten(rowsOfChunks) ==
    IF rowsOfChunks = <<>> THEN <<>>
    ELSE Head(rowsOfChunks) \o Flatten(Tail(rowsOfChunks))

generate_trace(evs) ==
    LET chunks == Chunks1(evs)
        rows_and_records ==
            [c \in 1..Len(chunks) |-> [i \in 1..Len(chunks[c]) |-> EventRow(chunks[c][i])]]
    IN pad_rows(Flatten(rows_and_records), PaddingRow)

-----------------------------------------------------------------------------
(* The precompile as a state machine *)

OperandBytes == NUM_PHYSICAL_WORDS * 4

Words(f(_)) == [i \in 1..NUM_PHYSICAL_WORDS |-> f(i)]

SampleZero(i) == 0
SampleMax(i) == WordMax
SampleMixed(i) == (37 * i + 5) % WordBase

\* The 256-bit values memory is filled with.
OperandSamples == {Words(SampleZero), Words(SampleMax), Words(SampleMixed)}

\* Pointers execute is called with: aligned, misaligned, aliased, overlapping.
XPtrs == {0, 2, OperandBytes, 2 * OperandBytes}
YPtrs == {0, 3, OperandBytes}

\* Both operand ranges lie in the memory of the model.
InMemory(x_ptr, y_ptr) ==
    /\ WordIndex(x_ptr) + NUM_PHYSICAL_WORDS <= MemWords
    /\ WordIndex(y_ptr) + 2 * NUM_PHYSICAL_WORDS <= MemWords

NoLibCall == [op |-> "none"]

InitChip ==
    /\ \E a \in OperandSamples, b \in OperandSamples, c \in OperandSamples :
         mem = [w \in 0..(MemWords - 1) |->
                  IF w < NUM_PHYSICAL_WORDS THEN a[w + 1]
                  ELSE IF w < 2 * NUM_PHYSICAL_WORDS THEN b[w - NUM_PHYSICAL_WORDS + 1]
                  ELSE IF w < 3 * NUM_PHYSICAL_WORDS THEN c[w - 2 * NUM_PHYSICAL_WORDS + 1]
                  ELSE 0]
    /\ events = <<>>
    /\ shard = 1
    /\ clk = 8
    /\ accesses = 0
    /\ panicked = FALSE
    /\ call = [n |-> 0, x_ptr |-> 0, y_ptr |-> 0, returned |-> FALSE]
    /\ trace = <<>>
    /\ lib = NoLibCall

\* The guest calls the syscall with arguments arg1, arg2.
Execute(arg1, arg2) ==
    /\ ~panicked
    /\ trace = <<>>
    /\ call.n < MaxCalls
    /\ InMemory(arg1, arg2)
    /\ \E out \in {execute(mem, events, accesses, shard, clk, arg1, arg2)} :
          /\ mem' = out.mem
          /\ events' = out.events
          /\ accesses' = out.accesses
          /\ panicked' = out.panic
          /\ call' = [n |-> call.n + 1, x_ptr |-> arg1, y_ptr |-> arg2,
                      returned |-> ~out.panic]
    /\ UNCHANGED <<shard, clk, trace, lib>>

\* The shard's execution is over and its trace is generated.
GenerateTrace ==
    /\ ~panicked
    /\ trace = <<>>
    /\ trace' = generate_trace(events)
    /\ UNCHANGED <<mem, events, shard, clk, accesses, panicked, call, lib>>

NextChip ==
    \/ \E arg1 \in XPtrs, arg2 \in YPtrs : Execute(arg1, arg2)
    \/ GenerateTrace

SpecChip == InitChip /\ [][NextChip]_vars

-----------------------------------------------------------------------------
(* AffinePoint<N>: N limbs, the x-coordinate in limbs 1 .. N/2 and the      *)
(* y-coordinate in the rest, little-endian; the all-zero limbs are the      *)
(* point at infinity.                                                       *)

\* Number of limbs of a point.
N == 4

ZeroLimbs == [i \in 1..N |-> 0]

\* The per-curve primitives add_assign and double are supplied by each curve.
\* The model instantiates them with the curve y^2 = x^3 + CurveB over the
\* field of FieldP elements, whose group has prime order, with the inverse
\* taken by exponentiation (so the inverse of 0 is 0).
FieldP == 7
CurveB == 5

RECURSIVE LimbsMod(_, _, _)
\* The little-endian value of limbs lo .. hi, as a field element.
LimbsMod(l, lo, hi) ==
    IF lo > hi THEN 0 ELSE (l[lo] + WordBase * LimbsMod(l, lo + 1, hi)) % FieldP

CoordX(l) == LimbsMod(l, 1, N \div 2)
CoordY(l) == LimbsMod(l, (N \div 2) + 1, N)

\* The limbs of the point (x, y), for x, y < FieldP.
Encode(x, y) == [i \in 1..N |-> IF i = 1 THEN x ELSE IF i = (N \div 2) + 1 THEN y ELSE 0]

FMod(a) == ((a % FieldP) + FieldP) % FieldP
FInv(a) == IF FMod(a) = 0 THEN 0 ELSE CHOOSE b \in 1..(FieldP - 1) : FMod(a * b) = 1

\* self.double(): the tangent formula.
Double(l) ==
    LET x == CoordX(l)
        y == CoordY(l)
        slope == FMod(3 * x * x * FInv(2 * y))
        x3 == FMod(slope * slope - 2 * x)
        y3 == FMod(slope * (x - x3) - y)
    IN IF l = ZeroLimbs THEN ZeroLimbs ELSE Encode(x3, y3)

\* self.add_assign(other), behaving as the complete group law.
AddAssign(l, other) ==
    LET x1 == CoordX(l)
        y1 == CoordY(l)
        x2 == CoordX(other)
        y2 == CoordY(other)
        slope == FMod((y2 - y1) * FInv(x2 - x1))
        x3 == FMod(slope * slope - x1 - x2)
        y3 == FMod(slope * (x1 - x3) - y1)
    IN IF l = ZeroLimbs THEN other
       ELSE IF other = ZeroLimbs THEN l
       ELSE IF x1 = x2 /\ y1 = y2 THEN Double(l)
       ELSE IF x1 = x2 THEN ZeroLimbs
       ELSE Encode(x3, y3)

\* The affine points of the curve, as limbs.
CurvePoints ==
    {Encode(x, y) : <<x, y>> \in
        {q \in (0..(FieldP - 1)) \X (0..(FieldP - 1)) :
            FMod(q[2] * q[2] - q[1] * q[1] * q[1] - CurveB) = 0}}

GroupElements == CurvePoints \cup {ZeroLimbs}
GroupOrder == Cardinality(GroupElements)

-----------------------------------------------------------------------------
(* AffinePoint::mul_assign and AffinePoint::multi_scalar_multiplication *)

None == [some |-> FALSE, v |-> ZeroLimbs]
Some(v) == [some |-> TRUE, v |-> v]

\* match res.as_mut() { Some(res) => res.add_assign(&temp), None => res = Some(temp.clone()) }
\* on the pair (res, calls), calls being the add_assign calls made so far.
Fold(rc, temp) ==
    IF rc.res.some
    THEN [res |-> Some(AddAssign(rc.res.v, temp)),
          calls |-> Append(rc.calls, [acc |-> rc.res.v, other |-> temp])]
    ELSE [res |-> Some(temp), calls |-> rc.calls]

\* A faulty variant of MulAssignBit: temp is doubled only when the bit is set.
MulAssignBit_DoubleIfSet(st, bit) ==
    IF bit = 1
    THEN [rc |-> Fold(st.rc, st.temp), temp |-> Double(st.temp)]
    ELSE st

\* One turn of the inner loop of mul_assign.
MulAssignBit(st, bit) ==
    [rc   |-> IF bit = 1 THEN Fold(st.rc, st.temp) ELSE st.rc,
     temp |-> Double(st.temp)]

RECURSIVE MulAssignLoop(_, _, _)
\* The loops of mul_assign from bit k (0-based, over all words) on.
MulAssignLoop(scalar, k, st) ==
    IF k = Len(scalar) * WordBits THEN st
    ELSE LET words == scalar[(k \div WordBits) + 1]
             i == k % WordBits
             st2 == MulAssignBit(st, (words \div (2 ^ i)) % 2)
         IN IF st2.temp = st2.temp THEN MulAssignLoop(scalar, k + 1, st2) ELSE st2

\* self.mul_assign(scalar): the error flag, self afterwards, and the
\* add_assign calls made.
mul_assign(self, scalar) ==
    IF \A j \in 1..Len(scalar) : scalar[j] = 0
    THEN [err |-> TRUE, self |-> self, calls |-> <<>>]
    ELSE LET st == MulAssignLoop(scalar, 0,
                     [rc |-> [res |-> None, calls |-> <<>>], temp |-> self])
         IN [err |-> FALSE, self |-> st.rc.res.v, calls |-> st.rc.calls]

\* A faulty variant of MsmStep: temp_b is not doubled.
MsmStep_NoDoubleB(st, a_bit, b_bit) ==
    LET rc1 == IF a_bit THEN Fold(st.rc, st.temp_a) ELSE st.rc
        rc2 == IF b_bit THEN Fold(rc1, st.temp_b) ELSE rc1
    IN [rc |-> rc2, temp_a |-> Double(st.temp_a), temp_b |-> st.temp_b]

\* One turn of the loop of multi_scalar_multiplication.
MsmStep(st, a_bit, b_bit) ==
    LET rc1 == IF a_bit THEN Fold(st.rc, st.temp_a) ELSE st.rc
        rc2 == IF b_bit THEN Fold(rc1, st.temp_b) ELSE rc1
    IN [rc |-> rc2, temp_a |-> Double(st.temp_a), temp_b |-> Double(st.temp_b)]

Min(a, b) == IF a <= b THEN a ELSE b

RECURSIVE MsmLoop(_, _, _, _)
\* The loop over a_bits_le.iter().zip(b_bits_le.iter()) from position k on.
MsmLoop(a_bits_le, b_bits_le, k, st) ==
    IF k > Min(Len(a_bits_le), Len(b_bits_le)) THEN st
    ELSE LET st2 == MsmStep(st, a_bits_le[k], b_bits_le[k])
         IN IF st2.temp_a = st2.temp_a THEN MsmLoop(a_bits_le, b_bits_le, k + 1, st2) ELSE st2

\* multi_scalar_multiplication(a_bits_le, a, b_bits_le, b): the Option
\* returned and the add_assign calls made.
multi_scalar_multiplication(a_bits_le, a, b_bits_le, b) ==
    LET st == MsmLoop(a_bits_le, b_bits_le, 1,
                 [rc |-> [res |-> None, calls |-> <<>>], temp_a |-> a, temp_b |-> b])
    IN [res |-> st.rc.res, calls |-> st.rc.calls]

-----------------------------------------------------------------------------
(* WeierstrassAffinePoint::weierstrass_add_assign_special_cases *)

\* y1.wrapping_add(*y2)
wrapping_add(y1, y2) == (y1 + y2) % WordBase

\* A faulty variant of IsNegation: the x-limbs are not compared.
IsNegation_IgnoresX(a, b) ==
    \A i \in ((N \div 2) + 1)..N : wrapping_add(a[i], b[i]) = 0

\* The condition of case 5.
IsNegation(a, b) ==
    /\ SubSeq(a, 1, N \div 2) = SubSeq(b, 1, N \div 2)
    /\ \A i \in ((N \div 2) + 1)..N : wrapping_add(a[i], b[i]) = 0

\* The value returned and self afterwards.
weierstrass_add_assign_special_cases(self, other) ==
    LET a == self
        b == other
    IN IF a = ZeroLimbs /\ b = ZeroLimbs THEN [ret |-> TRUE, self |-> ZeroLimbs]
       ELSE IF a = ZeroLimbs THEN [ret |-> TRUE, self |-> other]
       ELSE IF b = ZeroLimbs THEN [ret |-> TRUE, self |-> self]
       ELSE IF a = b THEN [ret |-> TRUE, self |-> Double(self)]
       ELSE IF IsNegation(a, b) THEN [ret |-> TRUE, self |-> ZeroLimbs]
       ELSE [ret |-> FALSE, self |-> self]

-----------------------------------------------------------------------------
(* The library as a state machine: one call per run *)

\* Longest bit sequence handed to multi_scalar_multiplication.
MaxBits == 3

\* Words a scalar is made of.
ScalarWords == {0, 1, 2, 3, 5, 17, WordMax}
Scalars == [1..(N \div 2) -> ScalarWords]

BitSeqs(n) == [1..n -> BOOLEAN]

\* Limb values the points handed to the special cases are made of.
LimbVals == {0, 1, WordMax}
LimbPoints == [1..N -> LimbVals]

\* Points handed to multi_scalar_multiplication: P, 2P, -P and infinity.
MsmPoints ==
    LET P == CHOOSE q \in CurvePoints : TRUE
    IN {P, Double(P), Encode(CoordX(P), FMod(0 - CoordY(P))), ZeroLimbs}

InitLib ==
    /\ mem = [w \in 0..(MemWords - 1) |-> 0]
    /\ events = <<>>
    /\ shard = 1
    /\ clk = 8
    /\ accesses = 0
    /\ panicked = FALSE
    /\ call = [n |-> 0, x_ptr |-> 0, y_ptr |-> 0, returned |-> FALSE]
    /\ trace = <<>>
    /\ lib = NoLibCall

chipVars == <<mem, events, shard, clk, accesses, panicked, call, trace>>

\* One call is made in a run: the library keeps no state between calls.
MulAssign ==
    /\ lib = NoLibCall
    /\ \E P \in GroupElements, scalar \in Scalars :
          lib' = [op |-> "mul_assign", self |-> P, scalar |-> scalar,
                  out |-> mul_assign(P, scalar)]
    /\ UNCHANGED chipVars

Msm ==
    /\ lib = NoLibCall
    /\ \E n \in 0..MaxBits : \E a_bits_le \in BitSeqs(n), b_bits_le \in BitSeqs(n) :
          \E a \in MsmPoints, b \in MsmPoints :
             lib' = [op |-> "msm", a_bits_le |-> a_bits_le, a |-> a,
                     b_bits_le |-> b_bits_le, b |-> b,
                     out |-> multi_scalar_multiplication(a_bits_le, a, b_bits_le, b)]
    /\ UNCHANGED chipVars

SpecialCases ==
    /\ lib = NoLibCall
    /\ \E self \in LimbPoints, other \in LimbPoints :
          lib' = [op |-> "special_cases", self |-> self, other |-> other,
                  out |-> weierstrass_add_assign_special_cases(self, other)]
    /\ UNCHANGED chipVars

NextLib == Msm \/ MulAssign \/ SpecialCases

SpecLib == InitLib /\ [][NextLib]_vars

-----------------------------------------------------------------------------
(* Reference modular multiplication: x * y mod m by double-and-add on the  *)
(* bits of y, every intermediate value kept below m.  It shares neither    *)
(* the product nor the division with execute.                              *)

\* (a + b) mod m, for a, b < m
RefModAdd(a, b, m) ==
    LET s == BigAdd(a, b) IN IF BigLess(s, m) THEN s ELSE BigSub(s, m)

RECURSIVE RefBits(_, _, _, _, _)
\* Horner over the bits j-1 .. 0 of word w: acc := 2 * acc + bit * x (mod m).
RefBits(w, j, x, m, acc) ==
    IF j = 0 THEN acc
    ELSE LET bit == (w \div (2 ^ (j - 1))) % 2
             acc2 == RefModAdd(RefModAdd(acc, acc, m), IF bit = 1 THEN x ELSE <<>>, m)
         IN IF Len(acc2) >= 0 THEN RefBits(w, j - 1, x, m, acc2) ELSE acc2

RECURSIVE RefWordsFrom(_, _, _, _, _)
\* Horner over the words i .. 1 of ws.
RefWordsFrom(ws, i, x, m, acc) ==
    IF i = 0 THEN acc
    ELSE LET acc2 == RefBits(ws[i], WordBits, x, m, acc)
         IN IF Len(acc2) >= 0 THEN RefWordsFrom(ws, i - 1, x, m, acc2) ELSE acc2

\* The number 1 mod m.
RefOne(m) == IF m = <<1>> THEN <<>> ELSE <<1>>

\* The words of (x * y) mod modulus, zero-extended to NUM_PHYSICAL_WORDS,
\* for operands given as little-endian words and a nonzero modulus.
RefMulMod(x, y, modulus) ==
    LET m == Normalize(modulus)
        xr == RefWordsFrom(x, Len(x), RefOne(m), m, <<>>)
        r == RefWordsFrom(y, Len(y), xr, m, <<>>)
    IN [i \in 1..NUM_PHYSICAL_WORDS |-> Digit(r, i)]

-----------------------------------------------------------------------------
(* Claims about the precompile *)

WordsAt(m, ptr) == [i \in 1..NUM_PHYSICAL_WORDS |-> m[WordIndex(ptr) + i - 1]]

\* The step is a call of execute that returned.
Returned == call'.n = call.n + 1 /\ call'.returned

\* The step is a call of execute with misaligned or aliased pointers.
BadPointerCall ==
    /\ call'.n = call.n + 1
    /\ \/ call'.x_ptr % 4 # 0
       \/ call'.y_ptr % 4 # 0
       \/ call'.x_ptr = call'.y_ptr

C1_Step ==
    Returned =>
        /\ \A i \in 0..(2 * NUM_PHYSICAL_WORDS - 1) :
              mem'[WordIndex(call'.y_ptr) + i] = mem[WordIndex(call'.y_ptr) + i]
        /\ WordsAt(mem', call'.x_ptr) =
              RefMulMod(WordsAt(mem, call'.x_ptr), WordsAt(mem, call'.y_ptr),
                        WordsAt(mem, call'.y_ptr + OperandBytes))

\* C1: whenever execute returns (aligned pointers, x_ptr # y_ptr, nonzero
\* modulus), the 16 words at y_ptr are what they were before the call and the
\* 8 words at x_ptr hold the modular product.
C1_InPlaceAliasing == [][C1_Step]_vars

C2_Step ==
    Returned =>
        WordsAt(mem', call'.x_ptr) =
            RefMulMod(WordsAt(mem, call'.x_ptr), WordsAt(mem, call'.y_ptr),
                      WordsAt(mem, call'.y_ptr + OperandBytes))

\* C2: whenever execute returns, the 8 words at x_ptr are the little-endian
\* words of (x * y) mod modulus, zero-extended, for the x, y and modulus held
\* in memory before the call.
C2_ModMulCorrect == [][C2_Step]_vars

\* A call returned whose product had to be reduced and whose result fills
\* more than one word: x = y = 2^256 - 1 against the mixed modulus.
C2_Witness ==
    /\ call.returned
    /\ events # <<>>
    /\ LET e == events[Len(events)]
       IN /\ e.x = Words(SampleMax)
          /\ e.y = Words(SampleMax)
          /\ e.modulus = Words(SampleMixed)
          /\ WordsAt(mem, e.x_ptr) # e.x
          /\ WordsAt(mem, e.x_ptr)[NUM_PHYSICAL_WORDS] # 0

C3_Step ==
    BadPointerCall =>
        /\ panicked'
        /\ ~call'.returned
        /\ mem' = mem
        /\ events' = events
        /\ accesses' = accesses

\* C3: a call of execute with x_ptr or y_ptr not a multiple of 4, or with
\* x_ptr = y_ptr, panics, and memory, the event log and the count of recorded
\* memory accesses are what they were before the call.
C3_AbortsOnBadPointers == [][C3_Step]_vars

\* A second call, with aliased pointers, panicked after a first one returned.
C3_Witness ==
    /\ panicked
    /\ call.x_ptr = call.y_ptr
    /\ call.x_ptr % 4 = 0
    /\ Len(events) = 1
    /\ accesses = 3 * NUM_PHYSICAL_WORDS

C4_Step ==
    /\ \A i \in 1..Len(events) : Len(events') >= i /\ events'[i] = events[i]
    /\ IF Returned
       THEN /\ Len(events') = Len(events) + 1
            /\ LET e == events'[Len(events')]
               IN /\ e.shard = shard
                  /\ e.clk = clk
                  /\ e.x_ptr = call'.x_ptr
                  /\ e.y_ptr = call'.y_ptr
                  /\ e.x = WordsAt(mem, call'.x_ptr)
                  /\ e.y = WordsAt(mem, call'.y_ptr)
                  /\ e.modulus = WordsAt(mem, call'.y_ptr + OperandBytes)
       ELSE events' = events

\* C4: every step keeps the events already logged as they are; a call of
\* execute that returns appends exactly one event, holding the call's shard,
\* clk, x_ptr and y_ptr, the y and modulus words read, and as x the words held
\* at x_ptr before the result was written; no other step changes the log.
C4_EventCapture == [][C4_Step]_vars

\* Two calls returned, on different pointers, and the second event's x is
\* not what x_ptr holds after the call.
C4_Witness ==
    /\ Len(events) = 2
    /\ events[1].x_ptr # events[2].x_ptr
    /\ events[2].x # WordsAt(mem, events[2].x_ptr)
    /\ events[2].x # Words(SampleZero)

\* C5: once generate_trace ran, the matrix has one row per event, row i
\* carrying event i's shard, clk, x_ptr and y_ptr with is_real = 1, and every
\* row after them is a padding row with is_real = 0.
C5_TraceRowLayout ==
    trace # <<>> =>
        /\ Len(trace) >= Len(events)
        /\ \A i \in 1..Len(trace) :
              IF i <= Len(events)
              THEN /\ trace[i].is_real = 1
                   /\ trace[i].shard = events[i].shard
                   /\ trace[i].clk = events[i].clk
                   /\ trace[i].x_ptr = events[i].x_ptr
                   /\ trace[i].y_ptr = events[i].y_ptr
              ELSE trace[i].is_real = 0
        /\ Cardinality({i \in 1..Len(trace) : trace[i].is_real = 1}) = Len(events)

\* A trace of two event rows on different pointers, then padding.
C5_Witness ==
    /\ trace # <<>>
    /\ Len(events) = 2
    /\ events[1].x_ptr # events[2].x_ptr
    /\ Len(trace) > Len(events)

-----------------------------------------------------------------------------
(* Claims about the affine-point library *)

RECURSIVE LimbsValue(_, _)
\* The little-endian integer a sequence of words stands for.
LimbsValue(l, i) ==
    IF i > Len(l) THEN 0 ELSE l[i] + WordBase * LimbsValue(l, i + 1)

RECURSIVE BitsValue(_, _)
\* The little-endian integer a bit sequence stands for.
BitsValue(bits, i) ==
    IF i > Len(bits) THEN 0 ELSE (IF bits[i] THEN 1 ELSE 0) + 2 * BitsValue(bits, i + 1)

RECURSIVE RepeatAdd(_, _)
\* The sum of n copies of P, one addition after the other.
RepeatAdd(P, n) == IF n = 0 THEN ZeroLimbs ELSE AddAssign(RepeatAdd(P, n - 1), P)

\* k * P.  GroupOrder copies of a group element sum to the identity, so the
\* sum of k copies is the sum of k mod GroupOrder copies.
Times(k, P) == RepeatAdd(P, k % GroupOrder)

\* C6: mul_assign fails with ScalarIsZero exactly when every scalar word is
\* zero; otherwise it leaves self equal to k * P, k being the scalar read as a
\* little-endian integer.
C6_MulAssignReference ==
    lib.op = "mul_assign" =>
        /\ lib.out.err <=> (\A j \in 1..Len(lib.scalar) : lib.scalar[j] = 0)
        /\ ~lib.out.err => lib.out.self = Times(LimbsValue(lib.scalar, 1), lib.self)
        /\ lib.out.err => lib.out.self = lib.self

\* A multiplication of a curve point by a scalar with both words set.
C6_Witness ==
    /\ lib.op = "mul_assign"
    /\ ~lib.out.err
    /\ lib.scalar[1] = 17
    /\ lib.scalar[Len(lib.scalar)] = 5
    /\ lib.self \in CurvePoints
    /\ lib.out.self \in CurvePoints
    /\ lib.out.self # lib.self

AllFalse(bits) == \A i \in 1..Len(bits) : ~bits[i]

\* C7: multi_scalar_multiplication returns None exactly when both bit
\* sequences are all zero, and otherwise Some(a * A + b * B).
C7_MsmConsistency ==
    lib.op = "msm" =>
        /\ ~lib.out.res.some <=> (AllFalse(lib.a_bits_le) /\ AllFalse(lib.b_bits_le))
        /\ lib.out.res.some =>
              lib.out.res.v = AddAssign(Times(BitsValue(lib.a_bits_le, 1), lib.a),
                                        Times(BitsValue(lib.b_bits_le, 1), lib.b))

\* An MSM of two different curve points, each with its highest bit set.
C7_Witness ==
    /\ lib.op = "msm"
    /\ Len(lib.a_bits_le) = MaxBits
    /\ lib.a_bits_le[MaxBits] /\ lib.b_bits_le[MaxBits] /\ lib.b_bits_le[1]
    /\ lib.a \in CurvePoints /\ lib.b \in CurvePoints /\ lib.a # lib.b
    /\ lib.out.res.some
    /\ lib.out.res.v \in CurvePoints

\* -P: the same x-limbs, every y-limb negated.
NegLimbs(P) ==
    [i \in 1..N |-> IF i <= N \div 2 THEN P[i] ELSE (WordBase - P[i]) % WordBase]

C9_SpecialCaseDispatch ==
    lib.op = "special_cases" =>
        LET P == lib.self
            Q == lib.other
            expected ==
                IF P = ZeroLimbs /\ Q = ZeroLimbs THEN <<TRUE, ZeroLimbs>>
                ELSE IF P = ZeroLimbs THEN <<TRUE, Q>>
                ELSE IF Q = ZeroLimbs THEN <<TRUE, P>>
                ELSE IF P = Q THEN <<TRUE, Double(P)>>
                ELSE IF Q = NegLimbs(P) THEN <<TRUE, ZeroLimbs>>
                ELSE <<FALSE, P>>
        IN <<lib.out.ret, lib.out.self>> = expected

\* The negation case fired on two different points, and elsewhere the pair
\* differs in x only.
C9_Witness ==
    /\ lib.op = "special_cases"
    /\ lib.self # ZeroLimbs
    /\ lib.other # lib.self
    /\ lib.other = NegLimbs(lib.self)
    /\ lib.out.ret
    /\ lib.out.self = ZeroLimbs

\* C10: in mul_assign and in multi_scalar_multiplication on points of the
\* curve, every add_assign is called with an accumulator and a running value
\* that differ and are not the point at infinity.
C10_AddPrecondition ==
    /\ (lib.op = "mul_assign" /\ lib.self \in CurvePoints) =>
          \A i \in 1..Len(lib.out.calls) :
             /\ lib.out.calls[i].acc # lib.out.calls[i].other
             /\ lib.out.calls[i].acc # ZeroLimbs
             /\ lib.out.calls[i].other # ZeroLimbs
    /\ (lib.op = "msm" /\ lib.a \in CurvePoints /\ lib.b \in CurvePoints) =>
          \A i \in 1..Len(lib.out.calls) :
             /\ lib.out.calls[i].acc # lib.out.calls[i].other
             /\ lib.out.calls[i].acc # ZeroLimbs
             /\ lib.out.calls[i].other # ZeroLimbs

====
